---------------------------- MODULE Spec2Model ----------------------------
(***************************************************************************)
(* Border-segment extraction and indexing kernel of the world-map engine   *)
(* (engine/src/borders).  The module follows api.ts, extract.ts, lod.ts    *)
(* and types.ts: the process-wide handle BORDER_CACHE,                     *)
(* initializeBorderIndex with the extraction it runs, the four queries,    *)
(* and the pure functions (canonicalPair, formatBorderSegmentId,           *)
(* simplifyLine, selectLOD, getBorderSegmentGeometryForLOD), which have a  *)
(* specification of their own, PureSpec.                                   *)
(*                                                                         *)
(* Strings are sequences of UTF-16 code units, so that the template        *)
(* strings of the code are concatenations and Array.prototype.sort() on    *)
(* two strings is a comparison of code units.  Coordinates are integers;   *)
(* length_km (great-circle trigonometry) is not part of the segment        *)
(* records of the model.                                                   *)
(***************************************************************************)
EXTENDS Integers, Sequences, FiniteSets, TLC

VARIABLES
    BORDER_CACHE,   \* api.ts:12, Null or the published BorderIndex
    pc,             \* "idle", or "extract" while initializeBorderIndex runs
    work,           \* what the running extraction still has to visit
    segments,       \* extract.ts:133, segments pushed by the running extraction
    pairCounters,   \* extract.ts:134, Map<string, number>
    lastCall,       \* the latest API call and how it ended, "running" until it ends
    extracted,      \* segment list of the last extraction that returned
    inits,          \* initializeBorderIndex calls that have returned: 0, 1, or 2 for more
    discarded,      \* lines the running or last extraction visited and did not emit
    topoHigh,       \* extract.ts:121, the topology of the running or last initializeBorderIndex
    geomToCountry,  \* extract.ts:129, the country record matched to each geometry
    extractedOf,    \* topology and matches of the extraction that returned last
    held,           \* an index object a reader got earlier and still holds, or Null
    topoLow,        \* api.ts:33, topojsonLow of the running or last call, Null when absent
    extractedLow,   \* topojsonLow of the extraction that returned last
    given,          \* arguments handed to one of the pure functions of the kernel
    applied,        \* that function's application: its name, arguments and result
    loop            \* extract.ts:26-29, keep and stack of a simplifyLine that is running

\* the state of the border API
kernelVars == <<BORDER_CACHE, pc, work, segments, pairCounters, lastCall, extracted,
                inits, discarded, topoHigh, geomToCountry, extractedOf, held,
                topoLow, extractedLow>>

\* the arguments and the result of a pure function, and the locals of one
pureVars == <<given, applied, loop>>

vars == <<kernelVars, pureVars>>

\* null / no value, as a record so that it compares with index and country records
Null == [null |-> TRUE]
\* the undefined of a missing string property; no string of the model equals it
Undefined == <<1>>

Range(seq) == {seq[k] : k \in 1..Len(seq)}

-----------------------------------------------------------------------------
(* Strings *)

Hyphen == <<45>>
SEA == <<83, 69, 65>>
ESP == <<69, 83, 80>>
PRT == <<80, 82, 84>>
USA == <<85, 83, 65>>
Id620 == <<54, 50, 48>>
Id724 == <<55, 50, 52>>
Id840 == <<56, 52, 48>>
NamePt == <<80, 116>>
NameEs == <<69, 115>>
NameUs == <<85, 115>>
NameXx == <<88, 120>>

RECURSIVE NumberToString(_)
\* `${index}` for a non-negative integer
NumberToString(n) ==
    IF n < 10 THEN <<48 + n>>
    ELSE NumberToString(n \div 10) \o <<48 + (n % 10)>>

RECURSIVE StrLess(_, _)
\* a < b on strings: code unit by code unit, a proper prefix is smaller
StrLess(a, b) ==
    IF b = <<>> THEN FALSE
    ELSE IF a = <<>> THEN TRUE
    ELSE IF Head(a) # Head(b) THEN Head(a) < Head(b)
    ELSE StrLess(Tail(a), Tail(b))

\* a pair left in the order given
SortPairAsGiven(a, b) == <<a, b>>

\* [a, b].sort(): the default comparator orders by code units and is stable
SortPair(a, b) == IF StrLess(b, a) THEN <<b, a>> ELSE <<a, b>>

-----------------------------------------------------------------------------
(* Canonicalizer, types.ts *)

\* an id string without the separator before the index
formatBorderSegmentIdIndexJoined(id) ==
    id.country_a \o Hyphen \o id.country_b \o NumberToString(id.index)

\* api.ts:73-75, `${id.country_a}-${id.country_b}-${id.index}`
formatBorderSegmentId(id) ==
    id.country_a \o Hyphen \o id.country_b \o Hyphen \o NumberToString(id.index)

canonicalPair(a, b) ==
    IF b = SEA
    THEN [a |-> a, b |-> b, key |-> a \o Hyphen \o SEA]
    ELSE LET s == SortPair(a, b)
         IN  [a |-> s[1], b |-> s[2], key |-> s[1] \o Hyphen \o s[2]]

ensureSegmentKey(segment) ==
    IF segment.segment_id = <<>>
    THEN [segment EXCEPT !.segment_id = formatBorderSegmentId(segment.id)]
    ELSE segment

-----------------------------------------------------------------------------
(* Line Simplifier, extract.ts:23-62 *)

\* default tolerance 0.05 = TolNum / TolDen
TolNum == 1
TolDen == 20

\* Squared deviation of coords[i] from the chord coords[start]..coords[end], as
\* a numerator over the chord's squared length lenSq (1 for a zero-length
\* chord, where the code's 1e-12 makes t = 0 and the projection the start).
DevNum(coords, start, end, i) ==
    LET sx == coords[start][1]
        sy == coords[start][2]
        dx == coords[end][1] - sx
        dy == coords[end][2] - sy
        px == coords[i][1] - sx
        py == coords[i][2] - sy
        cross == px * dy - py * dx
    IN  IF dx = 0 /\ dy = 0 THEN px * px + py * py ELSE cross * cross

ChordLenSq(coords, start, end) ==
    LET dx == coords[end][1] - coords[start][1]
        dy == coords[end][2] - coords[start][2]
    IN  IF dx = 0 /\ dy = 0 THEN 1 ELSE dx * dx + dy * dy

RECURSIVE MaxDeviationLastWins(_, _, _, _, _)
\* a for loop in which a later point of the same deviation replaces the first
MaxDeviationLastWins(coords, start, end, i, acc) ==
    IF i >= end THEN acc
    ELSE LET d == DevNum(coords, start, end, i)
         IN  MaxDeviationLastWins(coords, start, end, i + 1,
                                  IF d >= acc.max /\ d > 0 THEN [idx |-> i, max |-> d] ELSE acc)

RECURSIVE MaxDeviation(_, _, _, _, _)
\* the for loop of lines 39-51: acc = [idx, max]; the first maximum wins
MaxDeviation(coords, start, end, i, acc) ==
    IF i >= end THEN acc
    ELSE LET d == DevNum(coords, start, end, i)
         IN  MaxDeviation(coords, start, end, i + 1,
                          IF d > acc.max THEN [idx |-> i, max |-> d] ELSE acc)

\* a threshold that takes the tolerance where its square is meant
OverUnsquared(maxNum, lenSq, tolNum, tolDen) == maxNum * tolDen > tolNum * lenSq

\* line 52, maxSqDist > sqTol, for the deviation maxNum / lenSq
Over(maxNum, lenSq, tolNum, tolDen) == maxNum * tolDen * tolDen > tolNum * tolNum * lenSq

\* a push that puts the whole range back in place of its second part
SplitRepeatsRange(start, idx, end) == << <<start, idx>>, <<start, end>> >>

\* line 54, stack.push([start, idx], [idx, end])
Split(start, idx, end) == << <<start, idx>>, <<idx, end>> >>

\* one turn of the while loop, lines 31-55, that takes range k off the stack
Iteration(coords, keep, stack, k, tolNum, tolDen) ==
    LET rest  == SubSeq(stack, 1, k - 1) \o SubSeq(stack, k + 1, Len(stack))
        start == stack[k][1]
        end   == stack[k][2]
        m     == MaxDeviation(coords, start, end, start + 1, [idx |-> -1, max |-> 0])
    IN  IF Over(m.max, ChordLenSq(coords, start, end), tolNum, tolDen) /\ m.idx # -1
        THEN [keep  |-> [keep EXCEPT ![m.idx] = TRUE],
              stack |-> rest \o Split(start, m.idx, end)]
        ELSE [keep |-> keep, stack |-> rest]

RECURSIVE SimplifyLoop(_, _, _, _, _)
\* the while loop of lines 30-56 over the work stack; stack.pop() of line 31
\* takes the last element
SimplifyLoop(coords, keep, stack, tolNum, tolDen) ==
    IF stack = <<>> THEN keep
    ELSE LET turn == Iteration(coords, keep, stack, Len(stack), tolNum, tolDen)
         IN  SimplifyLoop(coords, turn.keep, turn.stack, tolNum, tolDen)

RECURSIVE KeptPointsDropsLast(_, _, _)
\* an output loop that stops one position early
KeptPointsDropsLast(coords, keep, i) ==
    IF i > Len(coords) - 1 THEN <<>>
    ELSE (IF keep[i] THEN <<coords[i]>> ELSE <<>>)
            \o KeptPointsDropsLast(coords, keep, i + 1)

RECURSIVE KeptPoints(_, _, _)
\* lines 57-61: the positions marked in keep, in input order
KeptPoints(coords, keep, i) ==
    IF i > Len(coords) THEN <<>>
    ELSE (IF keep[i] THEN <<coords[i]>> ELSE <<>>) \o KeptPoints(coords, keep, i + 1)

simplifyLine(coords, tolNum, tolDen) ==
    IF Len(coords) <= 2 THEN coords
    ELSE LET n     == Len(coords)
             keep0 == [i \in 1..n |-> i = 1 \/ i = n]
             keep  == SimplifyLoop(coords, keep0, << <<1, n>> >>, tolNum, tolDen)
         IN  KeptPoints(coords, keep, 1)

-----------------------------------------------------------------------------
(* createSegment, extract.ts:77-101 *)

\* a counter that starts at 1
CounterOfFromOne(counters, key) == IF key \in DOMAIN counters THEN counters[key] ELSE 1

\* extract.ts:84, pairCounters.get(key) ?? 0
CounterOf(counters, key) == IF key \in DOMAIN counters THEN counters[key] ELSE 0

\* Map.set(key, value)
MapSet(map, key, value) ==
    [k \in DOMAIN map \cup {key} |-> IF k = key THEN value ELSE map[k]]

\* a counter that is stored back without the increment
BumpCounterForgets(counters, key, idx) == MapSet(counters, key, idx)

\* extract.ts:85, pairCounters.set(key, idx + 1)
BumpCounter(counters, key, idx) == MapSet(counters, key, idx + 1)

createSegment(countryA, countryB, coords, counters) ==
    LET cp  == canonicalPair(countryA, countryB)
        idx == CounterOf(counters, cp.key)
        id  == [country_a |-> cp.a, country_b |-> cp.b, index |-> idx]
    IN  [segment |->
            [id          |-> id,
             country_a   |-> cp.a,
             country_b   |-> cp.b,
             geometry    |-> [coords_hi_res  |-> coords,
                              coords_low_res |-> simplifyLine(coords, TolNum, TolDen)],
             is_maritime |-> IF cp.b = SEA THEN "true" ELSE "undefined",
             segment_id  |-> formatBorderSegmentId(id)],
         counters |-> BumpCounter(counters, cp.key, idx)]

-----------------------------------------------------------------------------
(* Border Index, api.ts:14-28 *)

\* the push closure of lines 18-22
MapPush(map, key, seg) ==
    IF key \in DOMAIN map
    THEN [map EXCEPT ![key] = Append(@, seg)]
    ELSE MapSet(map, key, <<seg>>)

EmptyMap == [k \in {} |-> <<>>]

RECURSIVE IndexFold(_, _, _, _)
\* segments.forEach of lines 17-26
IndexFold(segs, i, byCountry, byPair) ==
    IF i > Len(segs) THEN [byCountry |-> byCountry, byPair |-> byPair]
    ELSE LET seg == segs[i]
             c1  == MapPush(byCountry, seg.country_a, seg)
             c2  == IF seg.country_b # SEA THEN MapPush(c1, seg.country_b, seg) ELSE c1
             p   == MapPush(byPair, seg.country_a \o Hyphen \o seg.country_b, seg)
         IN  IndexFold(segs, i + 1, c2, p)

buildIndex(segs) ==
    LET m == IndexFold(segs, 1, EmptyMap, EmptyMap)
    IN  [byCountry |-> m.byCountry, byPair |-> m.byPair, segments |-> segs]

\* map.get(key) ?? []
MapGetOrEmpty(map, key) == IF key \in DOMAIN map THEN map[key] ELSE <<>>

Threw(error) == [outcome |-> "threw", value |-> error]
Returned(v) == [outcome |-> "returned", value |-> v]
\* a call that has neither returned nor thrown yet
Running == [outcome |-> "running", value |-> Null]

\* api.ts:43-48: throws when the handle is null
\* assertCache that takes an index without segments for a missing one
assertCacheEmptyIsMissing(cache) ==
    IF cache = Null \/ cache.segments = <<>>
    THEN Threw("Border index not initialized. Call initializeBorderIndex first.")
    ELSE Returned(cache)

NotInitialized == "Border index not initialized. Call initializeBorderIndex first."

assertCache(cache) == IF cache = Null THEN Threw(NotInitialized) ELSE Returned(cache)

getBorderIndex(cache) == assertCache(cache)

getAllBorderSegments(cache) ==
    LET c == assertCache(cache)
    IN  IF c.outcome = "threw" THEN c ELSE Returned(c.value.segments)

getBorderSegmentsForCountry(cache, country) ==
    LET c == assertCache(cache)
    IN  IF c.outcome = "threw" THEN c
        ELSE Returned(MapGetOrEmpty(c.value.byCountry, country))

\* a pair lookup that takes the arguments in the order given
getBorderSegmentsBetweenAsGiven(cache, a, b) ==
    LET c == assertCache(cache)
    IN  IF c.outcome = "threw" THEN c
        ELSE Returned(MapGetOrEmpty(c.value.byPair, a \o Hyphen \o b))

\* api.ts:63-67: byPair.get(`${ca}-${cb}`) ?? byPair.get(key) ?? []
getBorderSegmentsBetween(cache, a, b) ==
    LET cp == canonicalPair(a, b)
        c  == assertCache(cache)
        k1 == cp.a \o Hyphen \o cp.b
    IN  IF c.outcome = "threw" THEN c
        ELSE IF k1 \in DOMAIN c.value.byPair THEN Returned(c.value.byPair[k1])
        ELSE Returned(MapGetOrEmpty(c.value.byPair, cp.key))

-----------------------------------------------------------------------------
(* Level of detail, view/lod.ts:66-70 and borders/lod.ts *)

\* A zoom is a fraction <<numerator, denominator>> with a positive
\* denominator; zoom >= n/d
AtLeast(zoom, n, d) == zoom[1] * d >= n * zoom[2]

\* zoom > n/d
Above(zoom, n, d) == zoom[1] * d > n * zoom[2]

\* thresholds that leave the boundary value in the lower tier
selectLODBoundaryBelow(zoom) ==
    IF Above(zoom, 3, 1) THEN "high"
    ELSE IF Above(zoom, 3, 2) THEN "medium"
    ELSE "low"

\* view/lod.ts:66-70: zoom >= 3, zoom >= 1.5
selectLOD(zoom) ==
    IF AtLeast(zoom, 3, 1) THEN "high"
    ELSE IF AtLeast(zoom, 3, 2) THEN "medium"
    ELSE "low"

BORDER_LOW_LOD_LEVEL == "low"

\* segment.geometry.coords_low_res?.length: the property is there and not empty
HasLowRes(segment) ==
    /\ "coords_low_res" \in DOMAIN segment.geometry
    /\ Len(segment.geometry.coords_low_res) # 0

\* a choice that does not look at the length of coords_low_res
getBorderSegmentGeometryForLODAnyLength(segment, zoom) ==
    IF selectLOD(zoom) = BORDER_LOW_LOD_LEVEL
          /\ "coords_low_res" \in DOMAIN segment.geometry
    THEN segment.geometry.coords_low_res
    ELSE segment.geometry.coords_hi_res

\* borders/lod.ts:7-13
getBorderSegmentGeometryForLOD(segment, zoom) ==
    IF selectLOD(zoom) = BORDER_LOW_LOD_LEVEL /\ HasLowRes(segment)
    THEN segment.geometry.coords_low_res
    ELSE segment.geometry.coords_hi_res

-----------------------------------------------------------------------------
(* The topology handed to extractBorderSegments, and what the code asks of   *)
(* topojson-client (extract.ts:1): feature, neighbors and mesh.              *)
(*                                                                         *)
(* A topology is [objects, arcs]: objects is the sequence of the entries of  *)
(* topology.objects in key order, each [key, hasGeometries, geometries];     *)
(* arcs is the arc table, each arc a sequence of positions <<x, y>>.  A      *)
(* geometry is [type, polys, id, name] with polys a sequence of polygons, a  *)
(* polygon a sequence of rings, a ring a sequence of arc references: i for   *)
(* arc i, -i for arc i reversed.  No geometry uses one arc twice.            *)
(***************************************************************************)

RECURSIVE ToLowerCase(_)
ToLowerCase(str) ==
    IF str = <<>> THEN <<>>
    ELSE <<IF Head(str) >= 65 /\ Head(str) <= 90 THEN Head(str) + 32 ELSE Head(str)>>
            \o ToLowerCase(Tail(str))

\* String.prototype.includes
Includes(str, sub) ==
    \E i \in 1..(Len(str) - Len(sub) + 1) : SubSeq(str, i, i + Len(sub) - 1) = sub

StrCountry == <<99, 111, 117, 110, 116, 114, 121>>

RECURSIVE FirstCountryKey(_, _)
\* Object.keys(objects).find(k => k.toLowerCase().includes("country")): 0 when none
FirstCountryKey(objects, i) ==
    IF i > Len(objects) THEN 0
    ELSE IF Includes(ToLowerCase(objects[i].key), StrCountry) THEN i
    ELSE FirstCountryKey(objects, i + 1)

\* extract.ts:124-126: index of the resolved object, 0 when objKey is undefined
ResolveObject(topo) ==
    LET f == FirstCountryKey(topo.objects, 1)
    IN  IF f # 0 THEN f
        ELSE IF Len(topo.objects) >= 1 THEN 1 ELSE 0

\* extract.ts:127-129 throw a TypeError for a topology without a resolvable
\* object (feature reads the type of undefined) and for a resolved object
\* without a geometries list (assignCountryLookup calls forEach of undefined)
MalformedTopology(topo) ==
    IF ResolveObject(topo) = 0 THEN TRUE
    ELSE ~topo.objects[ResolveObject(topo)].hasGeometries

Geometries(topo) == topo.objects[ResolveObject(topo)].geometries

RECURSIVE Flatten(_)
Flatten(seqs) == IF seqs = <<>> THEN <<>> ELSE Head(seqs) \o Flatten(Tail(seqs))

\* the arc references of a geometry in the order topojson-client walks them
ArcRefs(geom) == Flatten(Flatten(geom.polys))

Abs(i) == IF i < 0 THEN -i ELSE i

UsesArc(geom, j) == \E k \in 1..Len(ArcRefs(geom)) : Abs(ArcRefs(geom)[k]) = j

\* the geometries that use arc j, in geometry order (geomsByArc of mesh)
ArcUsers(geoms, j) == SelectSeq([i \in 1..Len(geoms) |-> i], LAMBDA i : UsesArc(geoms[i], j))

\* neighbors(geometries)[i]: ascending indexes of the other geometries that
\* share an arc with geometry i
neighbors(topo, geoms, i) ==
    SelectSeq([j \in 1..Len(geoms) |-> j],
              LAMBDA j : j # i /\ \E a \in 1..Len(topo.arcs) :
                                      UsesArc(geoms[i], a) /\ UsesArc(geoms[j], a))

\* the arc reference a mesh takes for arc j: the one of its first user
FirstRef(geoms, j) ==
    LET refs == ArcRefs(geoms[ArcUsers(geoms, j)[1]])
    IN  refs[CHOOSE k \in 1..Len(refs) : Abs(refs[k]) = j]

\* no geometry: what an argument of a mesh filter never is
NoGeom == 0

\* extract.ts:112, the filter of sharedMesh
sharedFilter(geomA, geomB, a, b) == (a = geomA /\ b = geomB) \/ (a = geomB /\ b = geomA)

\* extract.ts:107, the filter of coastlineMesh:
\* (a === targetGeom && !b) || (b === targetGeom && !a)
coastlineFilter(targetGeom, a, b) ==
    (a = targetGeom /\ b = NoGeom) \/ (b = targetGeom /\ a = NoGeom)

SharedOf(geomA, geomB) == [mesh |-> "shared", geomA |-> geomA, geomB |-> geomB]
CoastlineOf(targetGeom) == [mesh |-> "coastline", geomA |-> targetGeom, geomB |-> NoGeom]

\* the filter a mesh call passes, applied to the two geometries of an arc
MeshFilter(which, a, b) ==
    IF which.mesh = "shared" THEN sharedFilter(which.geomA, which.geomB, a, b)
    ELSE coastlineFilter(which.geomA, a, b)

\* The arcs mesh(topology, object, filter) keeps: the filter is called once
\* per arc with the first and the last geometry using the arc, which are the
\* same geometry for an arc used by one geometry only.
MeshArcs(topo, geoms, which) ==
    LET used == SelectSeq([j \in 1..Len(topo.arcs) |-> j],
                          LAMBDA j : Len(ArcUsers(geoms, j)) > 0
                                     /\ MeshFilter(which, ArcUsers(geoms, j)[1],
                                                   ArcUsers(geoms, j)[Len(ArcUsers(geoms, j))]))
    IN  [k \in 1..Len(used) |-> FirstRef(geoms, used[k])]

Reverse(seq) == [k \in 1..Len(seq) |-> seq[Len(seq) + 1 - k]]

ArcPoints(topo, ref) == IF ref < 0 THEN Reverse(topo.arcs[-ref]) ELSE topo.arcs[ref]

RECURSIVE LinePoints(_, _)
\* the positions of a run of arcs: the joint of two arcs is taken once.  The
\* positions are kept as the arc table has them, so an arc of one position
\* gives a line of one position.
LinePoints(topo, refs) ==
    IF refs = <<>> THEN <<>>
    ELSE IF Len(refs) = 1 THEN ArcPoints(topo, refs[1])
    ELSE LET front == LinePoints(topo, SubSeq(refs, 1, Len(refs) - 1))
         IN  SubSeq(front, 1, Len(front) - 1) \o ArcPoints(topo, refs[Len(refs)])

FragStart(topo, f) == ArcPoints(topo, f[1])[1]
FragEnd(topo, f) == LET a == ArcPoints(topo, f[Len(f)]) IN a[Len(a)]

\* index of the first fragment that ends at the position, 0 when none
FragEndingAt(topo, frags, pos) ==
    IF \E k \in 1..Len(frags) : FragEnd(topo, frags[k]) = pos
    THEN CHOOSE k \in 1..Len(frags) :
            /\ FragEnd(topo, frags[k]) = pos
            /\ \A m \in 1..(k - 1) : FragEnd(topo, frags[m]) # pos
    ELSE 0

\* index of the first fragment that starts at the position, 0 when none
FragStartingAt(topo, frags, pos) ==
    IF \E k \in 1..Len(frags) : FragStart(topo, frags[k]) = pos
    THEN CHOOSE k \in 1..Len(frags) :
            /\ FragStart(topo, frags[k]) = pos
            /\ \A m \in 1..(k - 1) : FragStart(topo, frags[m]) # pos
    ELSE 0

RemoveAt(seq, k) == SubSeq(seq, 1, k - 1) \o SubSeq(seq, k + 1, Len(seq))

RECURSIVE Stitch(_, _, _)
\* mesh stitches the kept arcs into lines: an arc that starts where a
\* fragment ends is appended to it, one that ends where a fragment starts is
\* put in front, and two fragments joined by the arc become one
Stitch(topo, refs, frags) ==
    IF refs = <<>> THEN frags
    ELSE LET ref   == Head(refs)
             pts   == ArcPoints(topo, ref)
             start == pts[1]
             end   == pts[Len(pts)]
             fe    == FragEndingAt(topo, frags, start)
             fs    == FragStartingAt(topo, frags, end)
             next  ==
                IF fe # 0 /\ fs # 0 /\ fs # fe
                THEN LET joined == frags[fe] \o <<ref>> \o frags[fs]
                         lo == IF fe < fs THEN fe ELSE fs
                         hi == IF fe < fs THEN fs ELSE fe
                     IN  Append(RemoveAt(RemoveAt(frags, hi), lo), joined)
                ELSE IF fe # 0 THEN [frags EXCEPT ![fe] = Append(@, ref)]
                ELSE IF fs # 0 THEN [frags EXCEPT ![fs] = <<ref>> \o @]
                ELSE Append(frags, <<ref>>)
         IN  Stitch(topo, Tail(refs), next)

\* geometryLines(mesh(topology, object, filter)), extract.ts:7-12: the mesh is
\* a MultiLineString, one line per stitched fragment
MeshLines(topo, geoms, which) ==
    LET frags == Stitch(topo, MeshArcs(topo, geoms, which), <<>>)
    IN  [k \in 1..Len(frags) |-> LinePoints(topo, frags[k])]

\* extract.ts:111-113
sharedMesh(topo, geoms, geomA, geomB) == MeshLines(topo, geoms, SharedOf(geomA, geomB))

\* extract.ts:103-109
coastlineMesh(topo, geoms, targetGeom) == MeshLines(topo, geoms, CoastlineOf(targetGeom))

-----------------------------------------------------------------------------
(* extractBorderSegments, extract.ts:119-179 *)

\* index of the first country record that matches the feature, 0 when none
FirstMatch(countries, ref, name) ==
    LET hit(c) == c.geometry_ref = ref \/ c.country_id = ref \/ c.name = name
    IN  IF \E k \in 1..Len(countries) : hit(countries[k])
        THEN CHOOSE k \in 1..Len(countries) :
                hit(countries[k]) /\ \A m \in 1..(k - 1) : ~hit(countries[m])
        ELSE 0

\* extract.ts:64-75: geometry index -> matched country record, Null when none.
\* ref is feat.id?.toString() ?? feat.properties?.name
assignCountryLookup(countries, geoms) ==
    [idx \in 1..Len(geoms) |->
        LET ref == IF geoms[idx].id # Undefined THEN geoms[idx].id ELSE geoms[idx].name
            k   == FirstMatch(countries, ref, geoms[idx].name)
        IN  IF k = 0 THEN Null ELSE countries[k]]

LineItem(kind, a, b, coords) == [kind |-> kind, a |-> a, b |-> b, coords |-> coords]
ThrowItem == [kind |-> "throw", a |-> <<>>, b |-> <<>>, coords |-> <<>>]

\* a neighbour loop that skips no pair, and so meets every pair from both sides
HandledFromOtherSideNever(i, j) == FALSE

\* extract.ts:142, if (j < i) return: the pair was handled when i was the smaller
HandledFromOtherSide(i, j) == j < i

\* extract.ts:137-152: the lines the neighbour loop visits, in order
SharedWork(topo, geoms, lookup) ==
    Flatten([i \in 1..Len(geoms) |->
        IF lookup[i] = Null THEN <<>>
        ELSE LET adj == neighbors(topo, geoms, i)
             IN  Flatten([k \in 1..Len(adj) |->
                    IF HandledFromOtherSide(i, adj[k]) \/ lookup[adj[k]] = Null THEN <<>>
                    ELSE LET shared == sharedMesh(topo, geoms, i, adj[k])
                         IN  [m \in 1..Len(shared) |->
                                LineItem("shared", lookup[i].country_id,
                                         lookup[adj[k]].country_id, shared[m])]])])

\* a fallback that takes the last ring of the polygon, a hole when it has one
LastRing(poly) == poly[Len(poly)]

\* extract.ts:172, const ring = poly[0]: the exterior ring comes first
ExteriorRing(poly) == poly[1]

\* extract.ts:166-174: the exterior rings of the geometry's own polygons; a
\* geometry that is neither Polygon nor MultiPolygon has no coordinates and
\* multipoly.forEach throws
FallbackWork(topo, geom, country) ==
    IF geom.type \notin {"Polygon", "MultiPolygon"} THEN <<ThrowItem>>
    ELSE Flatten([p \in 1..Len(geom.polys) |->
            IF Len(geom.polys[p]) = 0 THEN <<>>
            ELSE <<LineItem("ring", country.country_id, SEA,
                            LinePoints(topo, ExteriorRing(geom.polys[p])))>>])

\* extract.ts:155-176: the lines the coastline loop visits, in order
CoastWork(topo, geoms, lookup) ==
    Flatten([idx \in 1..Len(geoms) |->
        IF lookup[idx] = Null THEN <<>>
        ELSE LET coastLines == coastlineMesh(topo, geoms, idx)
             IN  IF Len(coastLines) > 0
                 THEN [m \in 1..Len(coastLines) |->
                        LineItem("coast", lookup[idx].country_id, SEA, coastLines[m])]
                 ELSE FallbackWork(topo, geoms[idx], lookup[idx])])

ExtractionWork(countries, topo) ==
    LET geoms  == Geometries(topo)
        lookup == assignCountryLookup(countries, geoms)
    IN  SharedWork(topo, geoms, lookup) \o CoastWork(topo, geoms, lookup)

\* a length check that lets a line of one position through
DegenerateOffByOne(coords) == Len(coords) < 1

\* the length checks of extract.ts:148, 162 and 173
Degenerate(coords) == Len(coords) < 2

-----------------------------------------------------------------------------
(* Inputs *)

StrCountries == <<99, 111, 117, 110, 116, 114, 105, 101, 115>>
StrCapCountry == <<67, 111, 117, 110, 116, 114, 121>>
StrLand == <<108, 97, 110, 100>>
ZZZ == <<90, 90, 90>>

Geom(type, polys, id, name) == [type |-> type, polys |-> polys, id |-> id, name |-> name]
Obj(key, has, geoms) == [key |-> key, hasGeometries |-> has, geometries |-> geoms]

\* two neighbours that share one arc and have one exterior arc each
TopoPair ==
    [arcs |-> << << <<2, 0>>, <<2, 1>>, <<2, 2>> >>,
                 << <<2, 2>>, <<0, 2>>, <<0, 0>>, <<2, 0>> >>,
                 << <<2, 0>>, <<4, 0>>, <<4, 2>>, <<2, 2>> >> >>,
     objects |-> << Obj(StrCountries, TRUE,
                        << Geom("Polygon", << << <<1, 2>> >> >>, Id620, NamePt),
                           Geom("Polygon", << << <<3, -1>> >> >>, Id724, NameEs) >>) >>]

\* two neighbours sharing one arc, and an island; a land object comes first
TopoNeighbours ==
    [arcs |-> << << <<2, 0>>, <<2, 1>>, <<2, 2>> >>,
                 << <<2, 2>>, <<0, 2>>, <<0, 0>>, <<2, 0>> >>,
                 << <<2, 0>>, <<4, 0>>, <<4, 2>>, <<2, 2>> >>,
                 << <<6, 0>>, <<7, 0>>, <<7, 1>>, <<6, 0>> >> >>,
     objects |-> << Obj(StrLand, TRUE,
                        << Geom("Polygon", << << <<2, 3>> >> >>, Undefined, Undefined) >>),
                    Obj(StrCapCountry, TRUE,
                        << Geom("Polygon", << << <<1, 2>> >> >>, Id620, NamePt),
                           Geom("Polygon", << << <<3, -1>> >> >>, Id724, NameEs),
                           Geom("Polygon", << << <<4>> >> >>, Id840, NameUs) >>) >>]

\* a border in two disjoint pieces, a third feature between the two that
\* carries no id and the name of the first, and an island part
TopoMultiPart ==
    [arcs |-> << << <<2, 0>>, <<2, 1>> >>,
                 << <<2, 3>>, <<2, 4>> >>,
                 << <<2, 1>>, <<1, 2>>, <<2, 3>> >>,
                 << <<2, 1>>, <<3, 2>>, <<2, 3>> >>,
                 << <<2, 4>>, <<0, 4>>, <<0, 0>>, <<2, 0>> >>,
                 << <<2, 0>>, <<4, 0>>, <<4, 4>>, <<2, 4>> >>,
                 << <<8, 8>>, <<9, 8>>, <<9, 9>>, <<8, 8>> >> >>,
     objects |-> << Obj(StrCountries, TRUE,
                        << Geom("MultiPolygon",
                                << << <<1, 3, 2, 5>> >>, << <<7>> >> >>, Id620, NamePt),
                           Geom("Polygon", << << <<6, -2, -4, -1>> >> >>, Id724, NameEs),
                           Geom("Polygon", << << <<-3, 4>> >> >>, Undefined, NamePt) >>) >>]

\* a shared border cut in two consecutive arcs, a shared arc of one position,
\* and an island whose ring is an arc of one position
TopoDegenerate ==
    [arcs |-> << << <<2, 0>>, <<2, 1>> >>,
                 << <<2, 1>>, <<2, 2>> >>,
                 << <<5, 5>> >>,
                 << <<2, 2>>, <<0, 2>>, <<0, 0>>, <<2, 0>> >>,
                 << <<2, 0>>, <<4, 0>>, <<4, 2>>, <<2, 2>> >>,
                 << <<7, 7>> >> >>,
     objects |-> << Obj(StrCountries, TRUE,
                        << Geom("Polygon", << << <<1, 2, 4>>, <<3>> >> >>, Id620, NamePt),
                           Geom("Polygon", << << <<5, -2, -1>>, <<-3>> >> >>, Id724, NameEs),
                           Geom("Polygon", << << <<6>> >> >>, Id840, NameUs) >>) >>]

\* an island with a hole, whose exterior ring runs east along the equator,
\* doubles back and goes on east before it closes
TopoBacktrack ==
    [arcs |-> << << <<0, 0>>, <<30, 0>>, <<10, 0>>, <<40, 0>>, <<40, 40>>, <<0, 0>> >>,
                 << <<20, 5>>, <<30, 5>>, <<30, 10>>, <<20, 5>> >> >>,
     objects |-> << Obj(StrCountries, TRUE,
                        << Geom("Polygon", << << <<1>>, <<2>> >> >>, Id620, NamePt) >>) >>]

\* an island, a polygon without rings and a geometry of type null
TopoNullGeometry ==
    [arcs |-> << << <<0, 0>>, <<1, 0>>, <<1, 1>>, <<0, 0>> >> >>,
     objects |-> << Obj(StrCountries, TRUE,
                        << Geom("Polygon", << << <<1>> >> >>, Id620, NamePt),
                           Geom("Polygon", << <<>> >>, Id840, NameUs),
                           Geom("null", <<>>, Id724, NameEs) >>) >>]

TopoNoObjects == [arcs |-> <<>>, objects |-> <<>>]

\* the resolved object is a single geometry, not a collection
TopoNoGeometries == [arcs |-> <<>>, objects |-> << Obj(StrCountries, FALSE, <<>>) >>]

TopoEmptyGeometries == [arcs |-> <<>>, objects |-> << Obj(StrCountries, TRUE, <<>>) >>]

Topologies ==
    {TopoPair, TopoNeighbours, TopoMultiPart, TopoDegenerate, TopoBacktrack,
     TopoNullGeometry, TopoNoObjects, TopoNoGeometries, TopoEmptyGeometries}

Country(id, name, ref) == [country_id |-> id, name |-> name, geometry_ref |-> ref]

\* Country identifiers are ISO3-like strings without a hyphen (types.ts:109);
\* the last record has the id of one feature and the reference of another.
CountryRecords ==
    {Country(PRT, NamePt, Id620), Country(ESP, NameEs, Id724),
     Country(USA, NameUs, Id840), Country(Id620, NameXx, Id724)}

\* longest list of country records handed to initializeBorderIndex
MaxCountries == 3

CountryLists == UNION {[1..n -> CountryRecords] : n \in 0..MaxCountries}

\* what extractBorderSegments has to visit, for every input it can resolve
ExtractionWorks ==
    {ExtractionWork(input[2], input[1]) :
        input \in {t \in Topologies : ~MalformedTopology(t)} \X CountryLists}

\* the calls of extractBorderSegments that get past extract.ts:129: the
\* topology, the matches of assignCountryLookup and what there is to visit
ExtractionCalls ==
    {[topoHigh      |-> input[1],
      geomToCountry |-> assignCountryLookup(input[2], Geometries(input[1])),
      work          |-> ExtractionWork(input[2], input[1])] :
        input \in {t \in Topologies : ~MalformedTopology(t)} \X CountryLists}

\* identifiers the queries are asked about: those of the records and one unknown
QueryIds == {PRT, ESP, USA, Id620, ZZZ}

-----------------------------------------------------------------------------
(* The process: calls of the border API.  JavaScript runs a call to its end   *)
(* before the next one starts, so the queries are enabled at pc = "idle"      *)
(* only; the extraction that initializeBorderIndex runs is shown line by      *)
(* line visited.                                                              *)
(***************************************************************************)

Call(op, result) == [op |-> op, outcome |-> result.outcome, value |-> result.value]

Init ==
    /\ BORDER_CACHE = Null
    /\ pc = "idle"
    /\ work = <<>>
    /\ segments = <<>>
    /\ pairCounters = EmptyMap
    /\ lastCall = Call("none", Returned(Null))
    /\ extracted = <<>>
    /\ inits = 0
    /\ discarded = 0
    /\ topoHigh = Null
    /\ geomToCountry = <<>>
    /\ extractedOf = Null
    /\ held = Null
    /\ topoLow = Null
    /\ extractedLow = Null
    /\ given = Null
    /\ applied = Null
    /\ loop = Null

\* initializeBorderIndex on a topology extractBorderSegments cannot resolve:
\* the call throws at extract.ts:127-129, before api.ts:39
InitializeMalformed ==
    /\ pc = "idle"
    /\ \E topo \in Topologies :
          /\ MalformedTopology(topo)
          /\ topoHigh' = topo
          /\ lastCall' = Call("initializeBorderIndex", Threw("TypeError"))
    /\ geomToCountry' = <<>>
    /\ UNCHANGED <<BORDER_CACHE, pc, work, segments, pairCounters, extracted,
                   inits, discarded, extractedOf, held, topoLow, extractedLow, pureVars>>

\* counters that go on from the segments of the published index
PairCountersResumed(cache) ==
    IF cache = Null THEN EmptyMap
    ELSE [key \in DOMAIN cache.byPair |-> Len(cache.byPair[key])]

\* extract.ts:134: every extraction counts in a Map of its own, whatever
\* index is published
NewPairCounters(cache) == EmptyMap

\* initializeBorderIndex enters extractBorderSegments, extract.ts:124-134, on
\* one of the calls
InitializeBeginWith(calls, lows) ==
    /\ pc = "idle"
    /\ \E call \in calls :
          /\ topoHigh' = call.topoHigh
          /\ geomToCountry' = call.geomToCountry
          /\ work' = call.work
    /\ topoLow' \in lows
    /\ pc' = "extract"
    /\ segments' = <<>>
    /\ pairCounters' = NewPairCounters(BORDER_CACHE)
    /\ discarded' = 0
    /\ lastCall' = Call("initializeBorderIndex", Running)
    /\ UNCHANGED <<BORDER_CACHE, extracted, inits, extractedOf, held, extractedLow,
                   pureVars>>

\* the calls that give no topojsonLow
InitializeBeginOf(calls) == InitializeBeginWith(calls, {Null})

InitializeBegin == InitializeBeginOf(ExtractionCalls)

\* an extraction that takes the low-resolution line from the low-detail
\* topology when one is given: the first arc of its size there
SegmentFromLowDetail(segment, low) ==
    IF low = Null THEN segment
    ELSE LET same == {j \in 1..Len(low.arcs) :
                         Len(low.arcs[j]) = Len(segment.geometry.coords_hi_res)}
         IN  IF same = {} THEN [segment EXCEPT !.geometry.coords_low_res = <<>>]
             ELSE [segment EXCEPT !.geometry.coords_low_res =
                                      low.arcs[CHOOSE j \in same : \A m \in same : j <= m]]

\* extract.ts:119-123, 149, 163, 173: extractBorderSegments never reads its
\* parameter topoLow; a segment is what createSegment makes of the line
SegmentGiven(segment, low) == segment

\* a loop that takes the index of the pair before it looks at the line
CountersAfterSkipAllocates(counters, a, b) ==
    BumpCounter(counters, canonicalPair(a, b).key, CounterOf(counters, canonicalPair(a, b).key))

\* extract.ts:148, 162, 173: the loop leaves a line of fewer than 2 positions
\* before createSegment is called, so no counter is read or written
CountersAfterSkip(counters, a, b) == counters

\* one line of a mesh or one exterior ring: extract.ts:147-150, 161-164, 170-174
VisitLine ==
    /\ pc = "extract"
    /\ work # <<>>
    /\ Head(work).kind # "throw"
    /\ work' = Tail(work)
    /\ IF Degenerate(Head(work).coords)
       THEN /\ discarded' = discarded + 1
            /\ pairCounters' = CountersAfterSkip(pairCounters, Head(work).a, Head(work).b)
            /\ UNCHANGED segments
       ELSE LET made == createSegment(Head(work).a, Head(work).b, Head(work).coords,
                                      pairCounters)
            IN  /\ segments' = Append(segments, SegmentGiven(made.segment, topoLow))
                /\ pairCounters' = made.counters
                /\ UNCHANGED discarded
    /\ UNCHANGED <<BORDER_CACHE, pc, lastCall, extracted, inits, topoHigh, geomToCountry,
                   extractedOf, held, topoLow, extractedLow, pureVars>>

\* an initializeBorderIndex that stores what was extracted before the throw
HandleAfterThrowPublishes(cache, segs) == buildIndex(segs)

\* api.ts:38-39: a throw of extractBorderSegments leaves line 38, so the
\* assignment of line 39 does not run and the handle keeps its value
HandleAfterThrow(cache, segs) == cache

\* the coastline fallback throws (extract.ts:170) and initializeBorderIndex
\* with it; the segments pushed so far are dropped with the call's frame
ExtractionThrows ==
    /\ pc = "extract"
    /\ work # <<>>
    /\ Head(work).kind = "throw"
    /\ pc' = "idle"
    /\ work' = <<>>
    /\ segments' = <<>>
    /\ pairCounters' = EmptyMap
    /\ lastCall' = Call("initializeBorderIndex", Threw("TypeError"))
    /\ BORDER_CACHE' = HandleAfterThrow(BORDER_CACHE, segments)
    /\ UNCHANGED <<extracted, inits, discarded, topoHigh, geomToCountry, extractedOf,
                   held, topoLow, extractedLow, pureVars>>

\* an initializeBorderIndex that merges the new segments into the cached index
PublishedIndexMerged(cache, segs) ==
    IF cache = Null THEN buildIndex(segs) ELSE buildIndex(cache.segments \o segs)

\* the index that api.ts:39 stores
PublishedIndex(cache, segs) == buildIndex(segs)

\* a build that clears and refills the maps of the index object built before
EarlierIndexRebuiltInPlace(earlier, segs) ==
    IF earlier = Null THEN Null ELSE buildIndex(segs)

\* api.ts:15-16, 27: buildIndex makes new maps and a new index object, so an
\* index object built earlier keeps its contents
EarlierIndexAfterBuild(earlier, segs) == earlier

\* extract.ts:178 and api.ts:39-40: the extraction returns, the index is built,
\* stored in BORDER_CACHE and returned
InitializeReturn ==
    /\ pc = "extract"
    /\ work = <<>>
    /\ LET segs == [k \in 1..Len(segments) |-> ensureSegmentKey(segments[k])]
       IN  /\ BORDER_CACHE' = PublishedIndex(BORDER_CACHE, segs)
           /\ lastCall' = Call("initializeBorderIndex", Returned(BORDER_CACHE'))
           /\ extracted' = segs
           /\ held' = EarlierIndexAfterBuild(held, segs)
    /\ extractedOf' = [topoHigh |-> topoHigh, geomToCountry |-> geomToCountry]
    /\ extractedLow' = topoLow
    /\ pc' = "idle"
    /\ segments' = <<>>
    /\ pairCounters' = EmptyMap
    /\ inits' = IF inits = 0 THEN 1 ELSE 2
    /\ UNCHANGED <<work, discarded, topoHigh, geomToCountry, topoLow, pureVars>>

Query(op, result) ==
    /\ pc = "idle"
    /\ lastCall' = Call(op, result)
    /\ UNCHANGED <<BORDER_CACHE, pc, work, segments, pairCounters, extracted,
                   inits, discarded, topoHigh, geomToCountry, extractedOf, held,
                   topoLow, extractedLow, pureVars>>

GetBorderIndex == Query("getBorderIndex", getBorderIndex(BORDER_CACHE))

GetAllBorderSegments == Query("getAllBorderSegments", getAllBorderSegments(BORDER_CACHE))

GetBorderSegmentsForCountry ==
    \E country \in QueryIds :
        Query("getBorderSegmentsForCountry",
              getBorderSegmentsForCountry(BORDER_CACHE, country))

GetBorderSegmentsBetween ==
    \E a \in QueryIds \cup {SEA}, b \in QueryIds \cup {SEA} :
        Query("getBorderSegmentsBetween", getBorderSegmentsBetween(BORDER_CACHE, a, b))

Next ==
    \/ InitializeMalformed
    \/ InitializeBegin
    \/ VisitLine
    \/ ExtractionThrows
    \/ InitializeReturn
    \/ GetBorderIndex
    \/ GetAllBorderSegments
    \/ GetBorderSegmentsForCountry
    \/ GetBorderSegmentsBetween

Spec == Init /\ [][Next]_vars

-----------------------------------------------------------------------------
(* A reader that keeps an index object it was given, while the API is used    *)
(* further.  The calls are those on the topologies of ReaderTopologies.       *)
(***************************************************************************)

ReaderTopologies == {TopoPair, TopoNullGeometry}

ReaderCalls == {call \in ExtractionCalls : call.topoHigh \in ReaderTopologies}

ReaderInitializeBegin == InitializeBeginOf(ReaderCalls)

\* the caller keeps the index object that initializeBorderIndex (api.ts:40) or
\* getBorderIndex (api.ts:51) has just returned to it
HoldIndex ==
    /\ pc = "idle"
    /\ lastCall.op \in {"initializeBorderIndex", "getBorderIndex"}
    /\ lastCall.outcome = "returned"
    /\ held' = lastCall.value
    /\ UNCHANGED <<BORDER_CACHE, pc, work, segments, pairCounters, lastCall, extracted,
                   inits, discarded, topoHigh, geomToCountry, extractedOf,
                   topoLow, extractedLow, pureVars>>

ReaderNext ==
    \/ InitializeMalformed
    \/ ReaderInitializeBegin
    \/ VisitLine
    \/ ExtractionThrows
    \/ InitializeReturn
    \/ GetBorderIndex
    \/ GetAllBorderSegments
    \/ GetBorderSegmentsForCountry
    \/ GetBorderSegmentsBetween
    \/ HoldIndex

ReaderSpec == Init /\ [][ReaderNext]_vars

-----------------------------------------------------------------------------
(* Calls of initializeBorderIndex that give a low-detail topology or none.    *)
(* The calls are those on the topologies of ReaderTopologies.                 *)
(***************************************************************************)

\* options.topojsonLow: absent, a topology, a different one
LowTopologies == {Null, TopoNeighbours, TopoEmptyGeometries}

LowDetailInitializeBegin == InitializeBeginWith(ReaderCalls, LowTopologies)

LowDetailNext ==
    \/ InitializeMalformed
    \/ LowDetailInitializeBegin
    \/ VisitLine
    \/ ExtractionThrows
    \/ InitializeReturn
    \/ GetAllBorderSegments

LowDetailSpec == Init /\ [][LowDetailNext]_vars

-----------------------------------------------------------------------------
(* The pure functions of the kernel, applied to arguments of their own: the   *)
(* arguments are given in the initial state and one step applies the          *)
(* function.  The border API stays as it is at start.                         *)
(***************************************************************************)

\* positions of the lines handed to simplifyLine
Positions == {<<0, 0>>, <<1, 0>>, <<2, 0>>, <<1, 1>>, <<2, 3>>, <<40, 1>>}

\* longest line handed to simplifyLine
MaxLineLen == 4

Lines == UNION {[1..n -> Positions] : n \in 0..MaxLineLen}

\* tolerances as fractions <<numerator, denominator>>: 0, the default 0.05, 1, 3
\* and a negative one
Tolerances == {<<0, 1>>, <<TolNum, TolDen>>, <<1, 1>>, <<3, 1>>, <<-1, 2>>}

SimplifyLineArgs ==
    {[fn |-> "simplifyLine", coords |-> line, tolerance |-> tol] :
        line \in Lines, tol \in Tolerances}

Application(args, result) == [args |-> args, result |-> result]

KernelAtStart ==
    /\ BORDER_CACHE = Null
    /\ pc = "idle"
    /\ work = <<>>
    /\ segments = <<>>
    /\ pairCounters = EmptyMap
    /\ lastCall = Call("none", Returned(Null))
    /\ extracted = <<>>
    /\ inits = 0
    /\ discarded = 0
    /\ topoHigh = Null
    /\ geomToCountry = <<>>
    /\ extractedOf = Null
    /\ held = Null
    /\ topoLow = Null
    /\ extractedLow = Null

Apply(fn, result) ==
    /\ applied = Null
    /\ given # Null
    /\ given.fn = fn
    /\ applied' = Application(given, result)
    /\ UNCHANGED <<given, loop, kernelVars>>

ApplySimplifyLine ==
    /\ given # Null /\ given.fn = "simplifyLine"
    /\ Apply("simplifyLine",
             simplifyLine(given.coords, given.tolerance[1], given.tolerance[2]))

\* largest numerator of a zoom
MaxZoomNum == 13

\* zooms from -1 to MaxZoomNum quarters, halves and wholes: 1.5 is 3/2 and 6/4
Zooms == {<<n, d>> : n \in (-1)..MaxZoomNum, d \in {1, 2, 4}}

SelectLODArgs == {[fn |-> "selectLOD", zoom |-> zoom] : zoom \in Zooms}

ApplySelectLOD ==
    /\ given # Null /\ given.fn = "selectLOD"
    /\ Apply("selectLOD", selectLOD(given.zoom))

RECURSIVE ExtractAll(_, _, _)
\* extract.ts:137-178 from the first line to the last: the segment list of an
\* extraction that visits todo, none when it throws
ExtractAll(todo, segs, counters) ==
    IF todo = <<>> THEN [k \in 1..Len(segs) |-> ensureSegmentKey(segs[k])]
    ELSE IF Head(todo).kind = "throw" THEN <<>>
    ELSE IF Degenerate(Head(todo).coords) THEN ExtractAll(Tail(todo), segs, counters)
    ELSE LET made == createSegment(Head(todo).a, Head(todo).b, Head(todo).coords, counters)
         IN  ExtractAll(Tail(todo), Append(segs, made.segment), made.counters)

\* the segments extractBorderSegments returns for the calls of the model
ExtractedSegments ==
    UNION {Range(ExtractAll(call.work, <<>>, EmptyMap)) : call \in ExtractionCalls}

\* segments made by hand, as the tests make them: without coords_low_res, and
\* with an empty one
SegmentWithoutLowRes ==
    [id          |-> [country_a |-> ESP, country_b |-> PRT, index |-> 0],
     country_a   |-> ESP,
     country_b   |-> PRT,
     geometry    |-> [coords_hi_res |-> << <<0, 0>>, <<1, 1>> >>],
     is_maritime |-> "undefined",
     segment_id  |-> formatBorderSegmentId([country_a |-> ESP, country_b |-> PRT, index |-> 0])]

SegmentWithEmptyLowRes ==
    [SegmentWithoutLowRes EXCEPT
        !.geometry = [coords_hi_res |-> << <<0, 0>>, <<1, 1>> >>, coords_low_res |-> <<>>]]

LODArgs(segs) ==
    {[fn |-> "getBorderSegmentGeometryForLOD", segment |-> seg, zoom |-> zoom] :
        seg \in segs, zoom \in Zooms}

ApplyGetBorderSegmentGeometryForLOD ==
    /\ given # Null /\ given.fn = "getBorderSegmentGeometryForLOD"
    /\ Apply("getBorderSegmentGeometryForLOD",
             getBorderSegmentGeometryForLOD(given.segment, given.zoom))

\* identifiers handed to canonicalPair: ISO3, numeric, one a prefix of
\* another, lower case, and "SEA"
StrPR == <<80, 82>>
StrLowerPrt == <<112, 114, 116>>
PairStrings == {PRT, ESP, USA, SEA, Id620, Id724, StrPR, StrLowerPrt, ZZZ}

CanonicalPairArgs ==
    {[fn |-> "canonicalPair", a |-> a, b |-> b] : a \in PairStrings, b \in PairStrings}

ApplyCanonicalPair ==
    /\ given # Null /\ given.fn = "canonicalPair"
    /\ Apply("canonicalPair", canonicalPair(given.a, given.b))

\* identifiers of the ids handed to formatBorderSegmentId, some ending in a digit
Str6 == <<54>>
Str62 == <<54, 50>>
IdStrings == {PRT, ESP, Id620, Str6, Str62}

\* largest index of those ids
MaxIndex == 20

SegmentIds ==
    {[country_a |-> a, country_b |-> b, index |-> i] :
        a \in IdStrings, b \in IdStrings \cup {SEA}, i \in 0..MaxIndex}
        \cup {seg.id : seg \in ExtractedSegments}

FormatBorderSegmentIdArgs == {[fn |-> "formatBorderSegmentId", id |-> id] : id \in SegmentIds}

ApplyFormatBorderSegmentId ==
    /\ given # Null /\ given.fn = "formatBorderSegmentId"
    /\ Apply("formatBorderSegmentId", formatBorderSegmentId(given.id))

PureInit ==
    /\ KernelAtStart
    /\ applied = Null
    /\ loop = Null
    /\ \/ given \in SimplifyLineArgs
       \/ given \in SelectLODArgs
       \/ given \in LODArgs(ExtractedSegments)
       \/ given \in LODArgs({SegmentWithoutLowRes, SegmentWithEmptyLowRes})
       \/ given \in CanonicalPairArgs
       \/ given \in FormatBorderSegmentIdArgs

PureNext ==
    \/ ApplySimplifyLine
    \/ ApplySelectLOD
    \/ ApplyGetBorderSegmentGeometryForLOD
    \/ ApplyCanonicalPair
    \/ ApplyFormatBorderSegmentId

PureSpec == PureInit /\ [][PureNext]_vars

-----------------------------------------------------------------------------
(* simplifyLine turn by turn: one step is the entry, one turn of the while    *)
(* loop or the return.  The border API stays as it is at start.               *)
(***************************************************************************)

SimplifyInit ==
    /\ KernelAtStart
    /\ applied = Null
    /\ loop = Null
    /\ given \in SimplifyLineArgs

\* extract.ts:24: a line of two positions or fewer is returned as a copy
SimplifyReturnEarly ==
    /\ applied = Null
    /\ loop = Null
    /\ Len(given.coords) <= 2
    /\ applied' = Application(given, given.coords)
    /\ UNCHANGED <<given, loop, kernelVars>>

\* extract.ts:25-29: keep marks the two ends, the stack holds the whole range
SimplifyEnter ==
    /\ applied = Null
    /\ loop = Null
    /\ Len(given.coords) > 2
    /\ loop' = [keep  |-> [i \in 1..Len(given.coords) |-> i = 1 \/ i = Len(given.coords)],
                stack |-> << <<1, Len(given.coords)>> >>]
    /\ UNCHANGED <<given, applied, kernelVars>>

\* one turn of the while loop on range k of the stack
IterateOn(k) ==
    /\ applied = Null
    /\ loop # Null
    /\ k \in 1..Len(loop.stack)
    /\ loop' = Iteration(given.coords, loop.keep, loop.stack, k,
                         given.tolerance[1], given.tolerance[2])
    /\ UNCHANGED <<given, applied, kernelVars>>

\* extract.ts:30-31: while (stack.length), stack.pop()
SimplifyIterate == loop # Null /\ IterateOn(Len(loop.stack))

\* extract.ts:57-61: the stack is empty, the kept positions are returned
SimplifyReturn ==
    /\ applied = Null
    /\ loop # Null
    /\ loop.stack = <<>>
    /\ applied' = Application(given, KeptPoints(given.coords, loop.keep, 1))
    /\ UNCHANGED <<given, loop, kernelVars>>

SimplifyNext ==
    \/ SimplifyReturnEarly
    \/ SimplifyEnter
    \/ SimplifyIterate
    \/ SimplifyReturn

SimplifySpec == SimplifyInit /\ [][SimplifyNext]_vars

\* a call of simplifyLine runs on until it returns: nothing else is scheduled
\* between its lines
SimplifyFairSpec == SimplifySpec /\ WF_vars(SimplifyNext)

\* the loop with the ranges taken off the stack in any order, of which the
\* order of stack.pop() is one
SimplifyIterateAnyOrder == loop # Null /\ \E k \in 1..Len(loop.stack) : IterateOn(k)

AnyOrderNext ==
    \/ SimplifyReturnEarly
    \/ SimplifyEnter
    \/ SimplifyIterateAnyOrder
    \/ SimplifyReturn

AnyOrderSpec == SimplifyInit /\ [][AnyOrderNext]_vars

-----------------------------------------------------------------------------
(* Properties *)

QueryOps ==
    {"getBorderIndex", "getAllBorderSegments", "getBorderSegmentsForCountry",
     "getBorderSegmentsBetween"}

ThrewNotInitialized(r) == r.outcome = "threw" /\ r.value = NotInitialized

\* C1: a query throws the "Border index not initialized" error exactly when no
\* initializeBorderIndex call has returned before it; after one has returned
\* no query throws it again, whatever calls follow.
C1_NotInitializedIffNoInit ==
    /\ lastCall.op \in QueryOps =>
          /\ ThrewNotInitialized(lastCall) <=> inits = 0
          /\ lastCall.outcome = "threw" => ThrewNotInitialized(lastCall)
    /\ ThrewNotInitialized(getBorderIndex(BORDER_CACHE)) <=> inits = 0
    /\ ThrewNotInitialized(getAllBorderSegments(BORDER_CACHE)) <=> inits = 0
    /\ \A x \in QueryIds :
          ThrewNotInitialized(getBorderSegmentsForCountry(BORDER_CACHE, x)) <=> inits = 0
    /\ \A a \in QueryIds, b \in QueryIds \cup {SEA} :
          ThrewNotInitialized(getBorderSegmentsBetween(BORDER_CACHE, a, b)) <=> inits = 0

\* a query answered from a published index that holds no segment
C1_Witness ==
    /\ inits > 0
    /\ BORDER_CACHE.segments = <<>>
    /\ lastCall.op \in QueryOps
    /\ lastCall.outcome = "returned"

\* C2: once initializeBorderIndex has returned, the handle is the index it
\* returned, its segment list is the list that call extracted, and every query
\* answers with segments of that list only; nothing of an earlier build is left.
C2_ReplacesCachedIndex ==
    inits > 0 =>
        /\ BORDER_CACHE # Null
        /\ BORDER_CACHE.segments = extracted
        /\ getBorderIndex(BORDER_CACHE).value = BORDER_CACHE
        /\ getAllBorderSegments(BORDER_CACHE).value = extracted
        /\ \A x \in QueryIds :
              Range(getBorderSegmentsForCountry(BORDER_CACHE, x).value) \subseteq Range(extracted)
        /\ \A a \in QueryIds, b \in QueryIds \cup {SEA} :
              Range(getBorderSegmentsBetween(BORDER_CACHE, a, b).value) \subseteq Range(extracted)
        /\ (lastCall.op = "initializeBorderIndex" /\ lastCall.outcome = "returned")
              => lastCall.value = BORDER_CACHE
        /\ (lastCall.op = "getBorderIndex") => lastCall.value = BORDER_CACHE

\* a second initializeBorderIndex has returned, with a single segment
C2_Witness ==
    /\ inits = 2
    /\ lastCall.op = "initializeBorderIndex"
    /\ lastCall.outcome = "returned"
    /\ Len(BORDER_CACHE.segments) = 1

\* byCountry and byPair cover the whole segment list of the index
Coherent(index) ==
    \A k \in 1..Len(index.segments) :
        LET seg == index.segments[k]
        IN  /\ seg.country_a \in DOMAIN index.byCountry
            /\ seg \in Range(index.byCountry[seg.country_a])
            /\ (seg.country_a \o Hyphen \o seg.country_b) \in DOMAIN index.byPair
            /\ seg \in Range(index.byPair[seg.country_a \o Hyphen \o seg.country_b])

HandleStep ==
    BORDER_CACHE' # BORDER_CACHE =>
        /\ pc = "extract" /\ work = <<>> /\ pc' = "idle"
        /\ lastCall'.op = "initializeBorderIndex"
        /\ lastCall'.outcome = "returned"
        /\ lastCall'.value = BORDER_CACHE'
        /\ Coherent(BORDER_CACHE')

\* C3: the handle changes only in the step in which initializeBorderIndex
\* returns, to the index it returns; a call that throws leaves the handle as it
\* was, and the handle never holds an index whose maps cover only part of its
\* segment list.
C3_PublishedOnlyOnReturn ==
    /\ [][HandleStep]_vars
    /\ [](BORDER_CACHE # Null => Coherent(BORDER_CACHE))

\* initializeBorderIndex has thrown while an index with segments was
\* published, and the handle still holds it
C3_Witness ==
    /\ lastCall.op = "initializeBorderIndex"
    /\ lastCall.outcome = "threw"
    /\ inits > 0
    /\ BORDER_CACHE # Null
    /\ Len(BORDER_CACHE.segments) > 0
    /\ BORDER_CACHE.segments = extracted

\* the segment lists there are: the one the running extraction has pushed so
\* far and the one of the published index
SegmentLists ==
    {segments} \cup (IF BORDER_CACHE = Null THEN {} ELSE {BORDER_CACHE.segments})

HasCountry(seg, x) == seg.country_a = x \/ seg.country_b = x

\* C4: after a successful initializeBorderIndex, getBorderSegmentsForCountry(X)
\* is the list of the segments of getAllBorderSegments() that have X as
\* country_a or country_b, each once (an unknown X gets the empty list).
C4_ByCountryExact ==
    inits > 0 =>
        \A x \in QueryIds :
            getBorderSegmentsForCountry(BORDER_CACHE, x).value
                = SelectSeq(getAllBorderSegments(BORDER_CACHE).value,
                            LAMBDA seg : HasCountry(seg, x))

EndPoints(seg) == {seg.country_a, seg.country_b}

\* C5: after a successful initializeBorderIndex, getBorderSegmentsBetween(a, b)
\* and getBorderSegmentsBetween(b, a) are both the list of the segments whose
\* end points are the unordered pair {a, b}, and getBorderSegmentsBetween(a,
\* "SEA") is the list of the a-SEA segments; a pair without a border gets the
\* empty list.
C5_ByPairExact ==
    inits > 0 =>
        /\ \A a \in QueryIds, b \in QueryIds :
              /\ getBorderSegmentsBetween(BORDER_CACHE, a, b).value
                    = SelectSeq(BORDER_CACHE.segments, LAMBDA seg : EndPoints(seg) = {a, b})
              /\ getBorderSegmentsBetween(BORDER_CACHE, b, a).value
                    = getBorderSegmentsBetween(BORDER_CACHE, a, b).value
        /\ \A a \in QueryIds :
              getBorderSegmentsBetween(BORDER_CACHE, a, SEA).value
                  = SelectSeq(BORDER_CACHE.segments,
                              LAMBDA seg : seg.country_a = a /\ seg.country_b = SEA)

\* the three pieces of a border, asked for with the larger identifier first,
\* in an index that holds coastline too
C5_Witness ==
    /\ inits > 0
    /\ lastCall.op = "getBorderSegmentsBetween"
    /\ lastCall.outcome = "returned"
    /\ Len(lastCall.value) = 3
    /\ lastCall.value = getBorderSegmentsBetween(BORDER_CACHE, PRT, ESP).value
    /\ \E k \in 1..Len(BORDER_CACHE.segments) : BORDER_CACHE.segments[k].country_b = SEA

UniqueIds(segs) ==
    \A k \in 1..Len(segs) :
        /\ segs[k].segment_id = formatBorderSegmentId(segs[k].id)
        /\ \A m \in 1..Len(segs) : m # k => segs[m].segment_id # segs[k].segment_id

\* C6: in the segment list of one build every segment_id is the formatted id
\* of its segment and no two segments have the same one.
C6_SegmentIdsDistinct == \A segs \in SegmentLists : UniqueIds(segs)

\* a published list with two segments of the same pair
C6_Witness ==
    /\ inits > 0
    /\ \E k, m \in 1..Len(BORDER_CACHE.segments) :
          /\ k # m
          /\ EndPoints(BORDER_CACHE.segments[k]) = EndPoints(BORDER_CACHE.segments[m])
          /\ BORDER_CACHE.segments[k].id.index # BORDER_CACHE.segments[m].id.index

\* C7: no segment has country_a equal to country_b.
C7_NoSelfBorder ==
    \A segs \in SegmentLists :
        \A k \in 1..Len(segs) : segs[k].country_a # segs[k].country_b

\* C8: a segment that is not maritime has country_a strictly before country_b,
\* and its id carries the same two identifiers.
C8_CanonicalOrder ==
    \A segs \in SegmentLists :
        \A k \in 1..Len(segs) :
            segs[k].country_b # SEA =>
                /\ StrLess(segs[k].country_a, segs[k].country_b)
                /\ segs[k].id.country_a = segs[k].country_a
                /\ segs[k].id.country_b = segs[k].country_b

\* the index of every segment is the number of segments of its pair before it
InDiscoveryOrder(segs) ==
    \A k \in 1..Len(segs) :
        segs[k].id.index
            = Cardinality({m \in 1..(k - 1) : EndPoints(segs[m]) = EndPoints(segs[k])})

\* C9: for every pair (or country and SEA) in the segment list of a build, the
\* indexes of its segments are 0..n-1, without gap or repeat, in the order in
\* which the segments were pushed.
C9_ContiguousIndexes == \A segs \in SegmentLists : InDiscoveryOrder(segs)

\* a published pair with three segments, found from two pairs of geometries,
\* with a segment of another pair between them
C9_Witness ==
    /\ inits > 0
    /\ \E k, m \in 1..Len(BORDER_CACHE.segments) :
          /\ k + 1 < m
          /\ BORDER_CACHE.segments[m].id.index = 2
          /\ EndPoints(BORDER_CACHE.segments[k]) = EndPoints(BORDER_CACHE.segments[m])
          /\ EndPoints(BORDER_CACHE.segments[k + 1]) # EndPoints(BORDER_CACHE.segments[m])

\* C10: every segment has at least two positions in coords_hi_res and in
\* coords_low_res.
C10_NoDegenerateSegment ==
    \A segs \in SegmentLists :
        \A k \in 1..Len(segs) :
            /\ Len(segs[k].geometry.coords_hi_res) >= 2
            /\ Len(segs[k].geometry.coords_low_res) >= 2

\* a build that discarded a line of one position and published segments, one
\* of them simplified to fewer positions than it has
C10_Witness ==
    /\ inits > 0
    /\ lastCall.op = "initializeBorderIndex"
    /\ lastCall.outcome = "returned"
    /\ discarded > 0
    /\ \E k \in 1..Len(BORDER_CACHE.segments) :
          Len(BORDER_CACHE.segments[k].geometry.coords_low_res)
              < Len(BORDER_CACHE.segments[k].geometry.coords_hi_res)

Applied(fn) == applied # Null /\ applied.args.fn = fn

RECURSIVE IsSubsequence(_, _)
\* sub is seq with some elements left out, the others in their order
IsSubsequence(sub, seq) ==
    IF sub = <<>> THEN TRUE
    ELSE IF seq = <<>> THEN FALSE
    ELSE IF Head(sub) = Head(seq) THEN IsSubsequence(Tail(sub), Tail(seq))
    ELSE IsSubsequence(sub, Tail(seq))

\* C11: for every line and tolerance, simplifyLine returns positions of the
\* line in their order, never more than the line has, the first and the last
\* position of the line among them (first and last of the result); a line of
\* two positions or fewer comes back with the same positions.
C11_SimplifyLineSubsequence ==
    Applied("simplifyLine") =>
        LET coords == applied.args.coords
            out    == applied.result
        IN  /\ IsSubsequence(out, coords)
            /\ Len(out) <= Len(coords)
            /\ Len(coords) >= 1 =>
                  /\ Len(out) >= 1
                  /\ out[1] = coords[1]
                  /\ out[Len(out)] = coords[Len(coords)]
            /\ Len(coords) <= 2 => out = coords

\* a line of four positions simplified to three at the default tolerance: one
\* inner position dropped, one kept
C11_Witness ==
    /\ Applied("simplifyLine")
    /\ applied.args.tolerance = <<TolNum, TolDen>>
    /\ Len(applied.args.coords) = 4
    /\ Len(applied.result) = 3

\* zoom < 1.5
BelowLowBoundary(zoom) == 2 * zoom[1] < 3 * zoom[2]

\* C12: getBorderSegmentGeometryForLOD returns coords_low_res when the zoom is
\* below 1.5 and coords_low_res is there and not empty, and coords_hi_res in
\* every other case; for a segment that extraction produced the result is not
\* empty.
C12_GeometryForLOD ==
    Applied("getBorderSegmentGeometryForLOD") =>
        LET geometry == applied.args.segment.geometry
            lowCase  == /\ BelowLowBoundary(applied.args.zoom)
                        /\ "coords_low_res" \in DOMAIN geometry
                        /\ geometry.coords_low_res # <<>>
        IN  /\ lowCase => applied.result = geometry.coords_low_res
            /\ ~lowCase => applied.result = geometry.coords_hi_res
            /\ applied.args.segment \in ExtractedSegments => applied.result # <<>>

\* an extracted segment whose simplified line is shorter, asked for at zoom
\* 1.25: the simplified line is returned
C12_Witness ==
    /\ Applied("getBorderSegmentGeometryForLOD")
    /\ applied.args.segment \in ExtractedSegments
    /\ applied.args.zoom = <<5, 4>>
    /\ applied.result = applied.args.segment.geometry.coords_low_res
    /\ applied.result # applied.args.segment.geometry.coords_hi_res

\* C13: selectLOD returns "low" below 1.5, "medium" from 1.5 up to but not
\* including 3, "high" from 3 on, and nothing else.
C13_SelectLODTiers ==
    Applied("selectLOD") =>
        LET n == applied.args.zoom[1]
            d == applied.args.zoom[2]
        IN  /\ (2 * n < 3 * d) => applied.result = "low"
            /\ (2 * n >= 3 * d /\ n < 3 * d) => applied.result = "medium"
            /\ (n >= 3 * d) => applied.result = "high"
            /\ applied.result \in {"low", "medium", "high"}

\* the boundary value 1.5, given in quarters, is in the medium tier
C13_Witness ==
    /\ Applied("selectLOD")
    /\ applied.args.zoom = <<6, 4>>
    /\ applied.result = "medium"

\* a is before b in the order of code units
LexBefore(a, b) ==
    \/ Len(a) < Len(b) /\ SubSeq(b, 1, Len(a)) = a
    \/ \E i \in 1..Len(a) :
          /\ i <= Len(b)
          /\ SubSeq(a, 1, i - 1) = SubSeq(b, 1, i - 1)
          /\ a[i] < b[i]

\* C17: for two different identifiers that are not "SEA", canonicalPair(a, b)
\* and canonicalPair(b, a) are the same: the two identifiers in lexicographic
\* order and the key of the ordered pair; canonicalPair(a, "SEA") is (a, "SEA",
\* 'a-SEA') whatever a is.
C17_CanonicalPairSymmetric ==
    Applied("canonicalPair") =>
        LET a == applied.args.a
            b == applied.args.b
            r == applied.result
        IN  /\ (a # b /\ a # SEA /\ b # SEA) =>
                  /\ r = canonicalPair(b, a)
                  /\ {r.a, r.b} = {a, b}
                  /\ LexBefore(r.a, r.b)
                  /\ r.key = r.a \o Hyphen \o r.b
            /\ b = SEA => r = [a |-> a, b |-> SEA, key |-> a \o Hyphen \o SEA]

\* the pair given with the larger identifier first comes back ordered
C17_Witness ==
    /\ Applied("canonicalPair")
    /\ applied.args.a = USA
    /\ applied.args.b = PRT
    /\ applied.result.a = PRT
    /\ applied.result.b = USA

RECURSIVE SplitAtHyphens(_, _)
\* the parts of a string between its hyphens; part is the part being read
SplitAtHyphens(str, part) ==
    IF str = <<>> THEN <<part>>
    ELSE IF <<Head(str)>> = Hyphen THEN <<part>> \o SplitAtHyphens(Tail(str), <<>>)
    ELSE SplitAtHyphens(Tail(str), Append(part, Head(str)))

RECURSIVE DecimalValue(_, _)
\* the number written by a string of digits, -1 when it is not one
DecimalValue(str, acc) ==
    IF str = <<>> THEN acc
    ELSE IF Head(str) < 48 \/ Head(str) > 57 THEN -1
    ELSE DecimalValue(Tail(str), 10 * acc + (Head(str) - 48))

InitializeEnded == pc = "idle" /\ lastCall.op = "initializeBorderIndex"

SegmentIdsOf(segs) == {segs[k].segment_id : k \in 1..Len(segs)}

\* C14: for the topology of two adjacent countries A and B (A the smaller
\* identifier) with one shared arc and one exterior arc each, both matched,
\* initializeBorderIndex returns with exactly three segments, A-B-0, A-SEA-0 and
\* B-SEA-0, and getBorderSegmentsBetween(B, A) is the list of the A-B-0 segment
\* alone.
C14_TwoNeighboursThreeSegments ==
    (/\ InitializeEnded
     /\ topoHigh = TopoPair
     /\ geomToCountry[1] # Null
     /\ geomToCountry[2] # Null
     /\ geomToCountry[1].country_id # geomToCountry[2].country_id) =>
        LET x == geomToCountry[1].country_id
            y == geomToCountry[2].country_id
            A == IF LexBefore(x, y) THEN x ELSE y
            B == IF LexBefore(x, y) THEN y ELSE x
            zero == <<48>>
            between == getBorderSegmentsBetween(BORDER_CACHE, B, A)
        IN  /\ lastCall.outcome = "returned"
            /\ Len(BORDER_CACHE.segments) = 3
            /\ SegmentIdsOf(BORDER_CACHE.segments)
                  = {A \o Hyphen \o B \o Hyphen \o zero,
                     A \o Hyphen \o SEA \o Hyphen \o zero,
                     B \o Hyphen \o SEA \o Hyphen \o zero}
            /\ between.outcome = "returned"
            /\ Len(between.value) = 1
            /\ between.value[1].id = [country_a |-> A, country_b |-> B, index |-> 0]
            /\ between.value[1] \in Range(BORDER_CACHE.segments)

\* the two countries of the pair topology, the second geometry's identifier
\* the smaller one, extracted and asked for with the larger identifier first
C14_Witness ==
    /\ pc = "idle"
    /\ inits > 0
    /\ topoHigh = TopoPair
    /\ extractedOf # Null
    /\ extractedOf.topoHigh = TopoPair
    /\ geomToCountry[1] # Null /\ geomToCountry[1].country_id = PRT
    /\ geomToCountry[2] # Null /\ geomToCountry[2].country_id = ESP
    /\ lastCall.op = "getBorderSegmentsBetween"
    /\ lastCall.outcome = "returned"
    /\ Len(lastCall.value) = 1
    /\ lastCall.value[1].segment_id = ESP \o Hyphen \o PRT \o Hyphen \o <<48>>

\* the topology has no object to resolve, or the resolved object has no
\* geometries: no list, or an empty one
NoGeometries(topo) ==
    IF MalformedTopology(topo) THEN TRUE ELSE Geometries(topo) = <<>>

\* C15: an initializeBorderIndex call on a topology without a resolvable
\* object or whose resolved object has no geometries (no list or an empty
\* list) ends by throwing, never by returning an index.
C15_MalformedTopologyThrows ==
    (InitializeEnded /\ NoGeometries(topoHigh)) => lastCall.outcome = "threw"

\* identifiers of the countries matched to a geometry
MatchedIds ==
    {geomToCountry[i].country_id : i \in {k \in 1..Len(geomToCountry) : geomToCountry[k] # Null}}

\* C16: an initializeBorderIndex call on a topology that has geometries
\* returns, whatever is skipped: geometries without a country record, lines of
\* fewer than two positions and empty coastline meshes; its segments are those
\* of the matched countries only.
C16_SilentSkipsNeverThrow ==
    (InitializeEnded /\ ~NoGeometries(topoHigh)) =>
        /\ lastCall.outcome = "returned"
        /\ \A k \in 1..Len(BORDER_CACHE.segments) :
              /\ BORDER_CACHE.segments[k].country_a \in MatchedIds
              /\ BORDER_CACHE.segments[k].country_b \in MatchedIds \cup {SEA}

\* the topology and the matches of the running extraction
RunningInput == [topoHigh |-> topoHigh, geomToCountry |-> geomToCountry]

\* an initializeBorderIndex call returns whose topology and matches are those
\* of the call that returned before it
RepeatedReturn ==
    /\ pc = "extract"
    /\ pc' = "idle"
    /\ lastCall'.outcome = "returned"
    /\ extractedOf # Null
    /\ extractedOf = RunningInput

QueryStep == pc = "idle" /\ pc' = "idle" /\ lastCall'.op \in QueryOps

\* C19: no query changes segments, byCountry or byPair of the published index,
\* lookups of unknown countries and pairs included; an index object that a
\* reader holds changes in no step of the API, a later initializeBorderIndex
\* included, and stays an index whose maps cover its segment list.
C19_PublishedIndexNeverMutated ==
    /\ [][QueryStep => BORDER_CACHE' = BORDER_CACHE]_vars
    /\ [][held' # held => HoldIndex]_vars
    /\ [](held # Null => Coherent(held))

\* a reader holds the index of three segments of an earlier build while
\* another index is published and an unknown country has just been looked up
C19_Witness ==
    /\ held # Null
    /\ BORDER_CACHE # Null
    /\ held # BORDER_CACHE
    /\ Len(held.segments) = 3
    /\ inits = 2
    /\ lastCall.op = "getBorderSegmentsForCountry"
    /\ lastCall.outcome = "returned"
    /\ lastCall.value = <<>>
    /\ ZZZ \notin DOMAIN BORDER_CACHE.byCountry


-----------------------------------------------------------------------------
(* Lengths.  lineLengthKm (extract.ts:14-20) sums great-circle distances,     *)
(* which integers cannot give; a step of a line is measured here in the plane *)
(* of longitude and latitude, in hundredths of a degree, between a bound from *)
(* below and one from above.  The planar length of a step is never less than  *)
(* its great-circle length, and equals it along the equator and along a       *)
(* meridian.                                                                  *)
(***************************************************************************)

RECURSIVE SqrtBetween(_, _, _)
\* the largest r with lo <= r < hi and r * r <= n, given lo * lo <= n < hi * hi
SqrtBetween(n, lo, hi) ==
    IF hi - lo <= 1 THEN lo
    ELSE LET mid == (lo + hi) \div 2
         IN  IF mid * mid <= n THEN SqrtBetween(n, mid, hi)
             ELSE SqrtBetween(n, lo, mid)

SqrtFloor(n) == SqrtBetween(n, 0, 46340)
SqrtCeil(n) == LET r == SqrtFloor(n) IN IF r * r = n THEN r ELSE r + 1

StepSq(p, q) == (q[1] - p[1]) * (q[1] - p[1]) + (q[2] - p[2]) * (q[2] - p[2])

RECURSIVE LengthFloor(_, _)
LengthFloor(coords, i) ==
    IF i >= Len(coords) THEN 0
    ELSE SqrtFloor(10000 * StepSq(coords[i], coords[i + 1])) + LengthFloor(coords, i + 1)

RECURSIVE LengthCeil(_, _)
LengthCeil(coords, i) ==
    IF i >= Len(coords) THEN 0
    ELSE SqrtCeil(10000 * StepSq(coords[i], coords[i + 1])) + LengthCeil(coords, i + 1)

\* C21: the low-resolution line of every segment the extraction makes is at
\* most 10% shorter or longer than its high-resolution line.  (Stated with the
\* bounds that favour the claim: the loss at its least, the length at its most.)
C21_LowResLengthWithinTenPercent ==
    \A segs \in SegmentLists : \A k \in 1..Len(segs) :
        LET hi  == segs[k].geometry.coords_hi_res
            low == segs[k].geometry.coords_low_res
        IN  /\ 10 * (LengthFloor(hi, 1) - LengthCeil(low, 1)) <= LengthCeil(hi, 1)
            /\ 10 * (LengthFloor(low, 1) - LengthCeil(hi, 1)) <= LengthCeil(hi, 1)

\* the same, for every topology but the island whose ring doubles back
C21_ElsewhereWithinTenPercent ==
    topoHigh # TopoBacktrack /\ (extractedOf = Null \/ extractedOf.topoHigh # TopoBacktrack)
        => C21_LowResLengthWithinTenPercent

-----------------------------------------------------------------------------
(* Coastlines and shared arcs, read off the last extraction that returned:    *)
(* extractedOf is its input, extracted its segments.                          *)
(***************************************************************************)

\* sub occurs in line as consecutive positions
ContainsLine(line, sub) ==
    \E off \in 0..(Len(line) - Len(sub)) :
        \A k \in 1..Len(sub) : line[off + k] = sub[k]

\* the positions of arc j occur in the line, in either direction
RunsAlongArc(line, topo, j) ==
    \/ ContainsLine(line, ArcPoints(topo, j))
    \/ ContainsLine(line, ArcPoints(topo, -j))

\* arcs of two positions or more that geometry idx has, by number of users
ArcsOf(topo, geoms, idx, users) ==
    {j \in 1..Len(topo.arcs) :
        /\ UsesArc(geoms[idx], j)
        /\ Len(topo.arcs[j]) >= 2
        /\ Len(ArcUsers(geoms, j)) \in users}

SeaSegmentsOf(segs, country) ==
    SelectSeq(segs, LAMBDA seg : seg.country_a = country /\ seg.country_b = SEA)

\* C22: a matched geometry with an arc that borders no other geometry has its
\* coastline segments built from such arcs only: no arc it shares with another
\* geometry runs along one of its country-SEA segments.
C22_CoastlineFromExteriorArcsOnly ==
    extractedOf # Null =>
        LET topo   == extractedOf.topoHigh
            geoms  == Geometries(topo)
            lookup == extractedOf.geomToCountry
        IN  \A idx \in 1..Len(geoms) :
                (lookup[idx] # Null /\ ArcsOf(topo, geoms, idx, {1}) # {}) =>
                    \A j \in ArcsOf(topo, geoms, idx, {2}) :
                        LET sea == SeaSegmentsOf(extracted, lookup[idx].country_id)
                        IN  \A k \in 1..Len(sea) :
                                ~RunsAlongArc(sea[k].geometry.coords_hi_res, topo, j)

\* the exterior rings of two positions or more that the polygons of geometry
\* idx have, each with the country the geometry is matched to
ExteriorRingsOf(topo, geoms, lookup, idx) ==
    Flatten([p \in 1..Len(geoms[idx].polys) |->
        LET poly == geoms[idx].polys[p]
        IN  IF Len(poly) >= 1 /\ Len(LinePoints(topo, poly[1])) >= 2
            THEN << <<lookup[idx].country_id, LinePoints(topo, poly[1])>> >>
            ELSE <<>>])

SeaSegments(segs) == SelectSeq(segs, LAMBDA seg : seg.country_b = SEA)

\* C23: in an extraction that returned, the matched geometries whose coastline
\* mesh is empty give one country-SEA segment for each of their polygons with
\* an exterior ring of two positions or more, made of that ring and of no
\* interior ring, in the order of the geometries and of their polygons; so a
\* matched geometry with such a polygon has a coastline segment.  (A polygon
\* without rings, or with a ring of one position, gives none.)
C23_FallbackOneSegmentPerExteriorRing ==
    extractedOf # Null =>
        LET topo   == extractedOf.topoHigh
            geoms  == Geometries(topo)
            lookup == extractedOf.geomToCountry
            rings  == Flatten([idx \in 1..Len(geoms) |->
                          IF lookup[idx] # Null /\ Len(coastlineMesh(topo, geoms, idx)) = 0
                          THEN ExteriorRingsOf(topo, geoms, lookup, idx)
                          ELSE <<>>])
            sea    == SeaSegments(extracted)
        IN  /\ [k \in 1..Len(sea) |-> <<sea[k].country_a, sea[k].geometry.coords_hi_res>>]
                   = rings
            /\ \A idx \in 1..Len(geoms) :
                   (lookup[idx] # Null /\ ExteriorRingsOf(topo, geoms, lookup, idx) # <<>>) =>
                       Len(SeaSegmentsOf(extracted, lookup[idx].country_id)) >= 1

\* the island with a hole was extracted: its one segment is the exterior ring
C23_Witness ==
    /\ extractedOf # Null
    /\ extractedOf.topoHigh = TopoBacktrack
    /\ extractedOf.geomToCountry[1] # Null
    /\ Len(extracted) = 1
    /\ extracted[1].country_b = SEA
    /\ extracted[1].geometry.coords_hi_res = TopoBacktrack.arcs[1]

-----------------------------------------------------------------------------
(* The counters of a running extraction *)

PairKeyOf(seg) == canonicalPair(seg.id.country_a, seg.id.country_b).key

EmittedFor(segs, key) == Len(SelectSeq(segs, LAMBDA seg : PairKeyOf(seg) = key))

CountersMatchSegments ==
    /\ \A key \in DOMAIN pairCounters :
           pairCounters[key] = EmittedFor(segments, key)
    /\ \A k \in 1..Len(segments) : PairKeyOf(segments[k]) \in DOMAIN pairCounters

\* a step that skips a line leaves every counter alone; a step that emits a
\* segment moves the counter of that segment's pair by one and no other
CounterStep ==
    /\ discarded' > discarded => pairCounters' = pairCounters
    /\ (pc = "extract" /\ Len(segments') = Len(segments) + 1) =>
           LET key == PairKeyOf(segments'[Len(segments')])
           IN  /\ CounterOf(pairCounters', key) = CounterOf(pairCounters, key) + 1
               /\ \A other \in (DOMAIN pairCounters \cup DOMAIN pairCounters') \ {key} :
                      CounterOf(pairCounters', other) = CounterOf(pairCounters, other)

\* C24: an index is allocated only for a line that is emitted: skipping a line
\* of fewer than 2 positions changes no counter, emitting a segment changes
\* the counter of its own pair only, and at every point of the extraction the
\* counter of a pair key is the number of segments emitted for that pair.
C24_CounterCountsEmittedSegments ==
    [](CountersMatchSegments) /\ [][CounterStep]_vars

\* a running extraction has skipped a line and has emitted segments of two
\* pairs, whose counters stand at the number emitted
C24_Witness ==
    /\ pc = "extract"
    /\ discarded >= 1
    /\ Len(segments) >= 2
    /\ \E k1, k2 \in DOMAIN pairCounters :
           k1 # k2 /\ pairCounters[k1] >= 1 /\ pairCounters[k2] >= 1

-----------------------------------------------------------------------------
(* Pairs of neighbours *)

LandSegments(segs) == SelectSeq(segs, LAMBDA seg : seg.country_b # SEA)

\* the arcs of two positions or more that two matched geometries share
SharedMatchedArcs(topo, geoms, lookup) ==
    {j \in 1..Len(topo.arcs) :
        /\ Len(topo.arcs[j]) >= 2
        /\ Len(ArcUsers(geoms, j)) = 2
        /\ \A u \in 1..2 : lookup[ArcUsers(geoms, j)[u]] # Null}

\* C25: every pair of adjacent matched geometries is processed once: in an
\* extraction that returned, an arc shared by two matched geometries runs
\* along exactly one land-border segment, which carries the countries of the
\* two geometries, and no line is emitted twice, as given or reversed.
C25_SharedArcsEmittedOnce ==
    extractedOf # Null =>
        LET topo   == extractedOf.topoHigh
            geoms  == Geometries(topo)
            lookup == extractedOf.geomToCountry
            land   == LandSegments(extracted)
        IN  /\ \A j \in SharedMatchedArcs(topo, geoms, lookup) :
                   LET along == {k \in 1..Len(land) :
                                    RunsAlongArc(land[k].geometry.coords_hi_res, topo, j)}
                       users == ArcUsers(geoms, j)
                   IN  /\ Cardinality(along) = 1
                       /\ \A k \in along :
                              {land[k].country_a, land[k].country_b}
                                  = {lookup[users[1]].country_id, lookup[users[2]].country_id}
            /\ \A k1, k2 \in 1..Len(land) :
                   k1 # k2 =>
                       /\ land[k1].geometry.coords_hi_res # land[k2].geometry.coords_hi_res
                       /\ land[k1].geometry.coords_hi_res
                              # Reverse(land[k2].geometry.coords_hi_res)

\* the border in two pieces was extracted with both sides matched: each of its
\* two arcs runs along one segment of the pair
C25_Witness ==
    /\ extractedOf # Null
    /\ extractedOf.topoHigh = TopoMultiPart
    /\ Cardinality(SharedMatchedArcs(TopoMultiPart, Geometries(TopoMultiPart),
                                     extractedOf.geomToCountry)) >= 2
    /\ Len(LandSegments(extracted)) >= 2

-----------------------------------------------------------------------------
(* The coastline lookup *)

\* C26: for every country that has coastline segments in the published index,
\* getBorderSegmentsBetween(c, "SEA") returns exactly its c-SEA segments and
\* getBorderSegmentsBetween("SEA", c) returns the same list.
C26_CoastlineLookupEitherOrder ==
    BORDER_CACHE # Null =>
        \A c \in QueryIds :
            LET sea == SeaSegmentsOf(BORDER_CACHE.segments, c)
            IN  sea # <<>> =>
                    /\ getBorderSegmentsBetween(BORDER_CACHE, c, SEA) = Returned(sea)
                    /\ getBorderSegmentsBetween(BORDER_CACHE, SEA, c) = Returned(sea)

\* the same, for the countries that sort before "SEA"
C26_BeforeSeaEitherOrder ==
    BORDER_CACHE # Null =>
        \A c \in {q \in QueryIds : StrLess(q, SEA)} :
            LET sea == SeaSegmentsOf(BORDER_CACHE.segments, c)
            IN  sea # <<>> =>
                    /\ getBorderSegmentsBetween(BORDER_CACHE, c, SEA) = Returned(sea)
                    /\ getBorderSegmentsBetween(BORDER_CACHE, SEA, c) = Returned(sea)

-----------------------------------------------------------------------------
(* The low-detail topology *)

\* an extraction returns that had the topology and the matches of the one
\* that returned before it, and another topojsonLow
ReturnWithOtherLowDetail == RepeatedReturn /\ topoLow # extractedLow

-----------------------------------------------------------------------------
(* The simplifier, turn by turn *)

\* the indices simplifyLine has marked to keep
Kept == {i \in 1..Len(given.coords) : loop.keep[i]}

\* the squared deviation of position i from the chord l..r is at most the
\* squared tolerance
WithinTolerance(coords, l, r, i, tol) ==
    DevNum(coords, l, r, i) * tol[2] * tol[2] <= tol[1] * tol[1] * ChordLenSq(coords, l, r)

Largest(S) == CHOOSE m \in S : \A k \in S : k <= m
Smallest(S) == CHOOSE m \in S : \A k \in S : m <= k

\* simplifyLine has returned from its loop
LoopReturned == applied # Null /\ loop # Null

\* a turn of the while loop
LoopTurn == loop # Null /\ loop' # loop

\* the turn is on a range with a position beyond the tolerance, and after it
\* a position of the greatest deviation in the range is kept
KeepsMaximum(start, end) ==
    LET inside == (start + 1)..(end - 1)
    IN  (\E i \in inside : ~WithinTolerance(given.coords, start, end, i, given.tolerance))
            => \E m \in inside :
                   /\ loop'.keep[m]
                   /\ \A j \in inside : DevNum(given.coords, start, end, j)
                                            <= DevNum(given.coords, start, end, m)

\* C28: when simplifyLine returns, every position it dropped deviates from the
\* chord between the nearest kept positions on its two sides by no more than
\* the tolerance (squared deviation at most the squared tolerance); and in
\* every turn on a range whose greatest deviation exceeds the tolerance, a
\* position of that greatest deviation is kept.
C28_DroppedWithinTolerance ==
    /\ [](LoopReturned =>
              \A i \in (1..Len(given.coords)) \ Kept :
                  WithinTolerance(given.coords,
                                  Largest({k \in Kept : k < i}),
                                  Smallest({k \in Kept : k > i}),
                                  i, given.tolerance))
    /\ [][LoopTurn => KeepsMaximum(loop.stack[Len(loop.stack)][1],
                                   loop.stack[Len(loop.stack)][2])]_vars

\* simplifyLine has returned a line of which it kept a position between the
\* ends and dropped one that is off the chord of its neighbours
C28_Witness ==
    /\ LoopReturned
    /\ \E m \in Kept : 1 < m /\ m < Len(given.coords)
    /\ \E i \in (1..Len(given.coords)) \ Kept :
           DevNum(given.coords, Largest({k \in Kept : k < i}),
                  Smallest({k \in Kept : k > i}), i) > 0

RECURSIVE StackMeasure(_, _)
\* what is left to do: a range of length n counts 2n - 1, so that two parts of
\* a range count less than the range
StackMeasure(stack, k) ==
    IF k > Len(stack) THEN 0
    ELSE 2 * (stack[k][2] - stack[k][1]) - 1 + StackMeasure(stack, k + 1)

\* the turn took the last range off the stack and pushed nothing, or pushed
\* its two parts on either side of an index strictly inside it
CollapsedOrSplit ==
    LET n     == Len(loop.stack)
        start == loop.stack[n][1]
        end   == loop.stack[n][2]
        below == SubSeq(loop.stack, 1, n - 1)
    IN  \/ loop'.stack = below /\ loop'.keep = loop.keep
        \/ \E idx \in (start + 1)..(end - 1) :
               /\ loop'.stack = below \o << <<start, idx>>, <<idx, end>> >>
               /\ idx - start < end - start
               /\ end - idx < end - start
               /\ loop'.keep = [loop.keep EXCEPT ![idx] = TRUE]

\* C29: simplifyLine terminates: every turn of its loop takes a range off the
\* stack and either pushes nothing or pushes the two parts of the range on
\* the two sides of a strictly interior index, both strictly shorter, so what
\* is left on the stack gets less with every turn, the stack runs empty and
\* the call returns.
C29_SimplifyLineTerminates ==
    /\ [][LoopTurn => /\ CollapsedOrSplit
                      /\ StackMeasure(loop'.stack, 1) < StackMeasure(loop.stack, 1)]_vars
    /\ [](loop # Null => \A k \in 1..Len(loop.stack) : loop.stack[k][1] < loop.stack[k][2])
    /\ <>(applied # Null)

\* the loop has split a range and the parts of a part, and has returned
C29_Witness ==
    /\ LoopReturned
    /\ loop.stack = <<>>
    /\ Cardinality(Kept) = Len(given.coords)
    /\ Len(given.coords) >= 4

\* the first position strictly inside start..end whose deviation from the
\* chord start..end is the greatest
FirstMaximum(coords, start, end) ==
    CHOOSE m \in (start + 1)..(end - 1) :
        /\ \A j \in (start + 1)..(end - 1) :
               DevNum(coords, start, end, j) <= DevNum(coords, start, end, m)
        /\ \A j \in (start + 1)..(m - 1) :
               DevNum(coords, start, end, j) < DevNum(coords, start, end, m)

RECURSIVE DouglasPeucker(_, _, _, _)
\* the recursive Douglas-Peucker reference: the indices kept strictly inside
\* start..end
DouglasPeucker(coords, start, end, tol) ==
    IF end - start < 2 THEN {}
    ELSE LET m == FirstMaximum(coords, start, end)
         IN  IF WithinTolerance(coords, start, end, m, tol) THEN {}
             ELSE {m} \cup DouglasPeucker(coords, start, m, tol)
                      \cup DouglasPeucker(coords, m, end, tol)

\* C30: whatever the order in which the ranges are taken off the stack, the
\* loop of simplifyLine ends with exactly the indices kept that the recursive
\* Douglas-Peucker reference keeps (the two ends, and in a range whose
\* greatest deviation exceeds the tolerance the first position of that
\* deviation and what the two parts keep), and returns the positions at these
\* indices, which is what the loop in the order of stack.pop() returns.
C30_SameIndicesAsRecursive ==
    LoopReturned =>
        LET n == Len(given.coords)
        IN  /\ Kept = {1, n} \cup DouglasPeucker(given.coords, 1, n, given.tolerance)
            /\ applied.result
                   = simplifyLine(given.coords, given.tolerance[1], given.tolerance[2])

\* the loop has returned after a turn on a range in which two positions had
\* the greatest deviation, and has ended with the first of them kept and the
\* second dropped
C30_Witness ==
    /\ LoopReturned
    /\ \E i, j \in 2..(Len(given.coords) - 1) :
           /\ i < j
           /\ DevNum(given.coords, 1, Len(given.coords), i)
                  = DevNum(given.coords, 1, Len(given.coords), j)
           /\ FirstMaximum(given.coords, 1, Len(given.coords)) = i
           /\ i \in Kept
           /\ j \notin Kept

\* the stack holds two ranges, so that which one is taken next is a choice
C30_TwoRangesWaiting == loop # Null /\ Len(loop.stack) >= 2 /\ applied = Null

=============================================================================
